---------------------------- MODULE Spec2Model ----------------------------
(***************************************************************************)
(* The asynchronous enrichment pipeline of the medical feedback platform:  *)
(* the feedback routes (app/routers/feedback.py), the feedback service     *)
(* (app/services/feedback_service.py), the Gemini classifier client with   *)
(* its retry loop (app/services/gemini_service.py) and the Socket.IO       *)
(* notifications (app/sockets/events.py).                                  *)
(*                                                                         *)
(* The committed database is the three tables feedback, analysis and       *)
(* actions.  Every background task runs on the asyncio event loop and is   *)
(* interleaved with the request handlers and the other tasks at its        *)
(* awaits.  The load, the commit and the emits touch what the tasks share  *)
(* and are one action each.  analyze_feedback_with_retry touches nothing   *)
(* shared: it is the function RetryLoop of the outcomes of its classifier  *)
(* calls, applied in the action of the load, and studied on its own under  *)
(* SpecRetry, which draws the outcomes and applies the function.           *)
(*                                                                         *)
(* Spec is the program with a Socket.IO server that takes every emit;      *)
(* SpecPublish adds the emits that raise.  SpecPair starts from records    *)
(* created side by side, SpecStaff from records at rest that the staff     *)
(* update, SpecUnknown from a task called with an id that no record has.   *)
(* SpecPreview, SpecParse and SpecStructure apply the helper functions of  *)
(* the notifications and of the classifier client to inputs drawn from     *)
(* bounded sets.                                                           *)
(***************************************************************************)
EXTENDS Naturals, Sequences, FiniteSets

VARIABLES
    configured,   \* gemini_service.model is set (GOOGLE_API_KEY was given)
    feedback,     \* table feedback: feedback[id] is the row with that id
    analysis,     \* table analysis: rows in insertion order
    actions,      \* table actions: rows in insertion order
    events,       \* what was emitted to the staff room, in order
    tasks,        \* the background tasks added so far, tasks[t] is run t
    loop,         \* SpecRetry: the outcomes drawn and what the loop made of them
    fn            \* the helper functions on their own: an input and its result

vars == <<configured, feedback, analysis, actions, events, tasks, loop, fn>>

---------------------------------------------------------------------------
(* Bounds of the model. *)

\* create_feedback requests
MaxRecords == 1
\* background tasks (one per create_feedback, one per retry_analysis)
MaxTasks == 2
\* update_feedback requests
MaxUpdates == 1

(* Program constants. *)

\* analyze_feedback_with_retry(max_retries=3)
MAX_RETRIES == 3
\* "retry_after": 60 of the rate limit result
RETRY_AFTER == 60

---------------------------------------------------------------------------
(* What one classifier call can produce: generate_content raises, with a   *)
(* message, or returns a response text.  An exception is its HTTP status   *)
(* (0 when it has none) and which of the phrases analyze_feedback searches *)
(* its message for ("429", "rate limit", "connection", "timeout") occur in *)
(* str(e).lower().  A response is a JSON object carrying an urgency level, *)
(* text that json.loads rejects ("garbage"), valid JSON that is no object  *)
(* (a non-empty list, "list") or an object whose confidence_score float()  *)
(* rejects ("bad_confidence").                                             *)

Exceptions ==
    { [kind |-> "exc", status |-> 429, phrases |-> {"429"},     urgency |-> "none"],
      [kind |-> "exc", status |-> 0,   phrases |-> {"timeout"}, urgency |-> "none"],
      [kind |-> "exc", status |-> 500, phrases |-> {},          urgency |-> "none"],
      [kind |-> "exc", status |-> 400, phrases |-> {},          urgency |-> "none"] }

Responses ==
    { [kind |-> "json", status |-> 200, phrases |-> {}, urgency |-> "critical"],
      [kind |-> "json", status |-> 200, phrases |-> {}, urgency |-> "medium"],
      [kind |-> "garbage", status |-> 200, phrases |-> {}, urgency |-> "none"],
      [kind |-> "list", status |-> 200, phrases |-> {}, urgency |-> "none"],
      [kind |-> "bad_confidence", status |-> 200, phrases |-> {},
       urgency |-> "critical"] }

Outcomes == Exceptions \cup Responses

---------------------------------------------------------------------------
(* The dict analyze_feedback returns: "error" (here "none" when the key is *)
(* absent, else the branch that made the error text), "retry" (FALSE when  *)
(* absent, as result.get("retry", False) reads it), "retry_after" (0 when  *)
(* absent) and the urgency of a result.                                    *)

NoResult ==
    [error |-> "unset", retry |-> FALSE, retry_after |-> 0, urgency |-> "none"]

\* variant: the not-configured error marked as worth a retry
NotConfiguredRetryable ==
    [error |-> "not_configured", retry |-> TRUE, retry_after |-> 0, urgency |-> "none"]

\* gemini_service.py 68-73
NotConfiguredResult ==
    [error |-> "not_configured", retry |-> FALSE, retry_after |-> 0, urgency |-> "none"]

\* gemini_service.py 142-164: the except branch, by what str(e) holds
ErrorResult(o) ==
    IF "429" \in o.phrases \/ "rate limit" \in o.phrases
    THEN [error |-> "rate_limit", retry |-> FALSE, retry_after |-> RETRY_AFTER,
          urgency |-> "none"]
    ELSE IF "connection" \in o.phrases \/ "timeout" \in o.phrases
    THEN [error |-> "connection", retry |-> TRUE, retry_after |-> 0,
          urgency |-> "none"]
    ELSE [error |-> "generic", retry |-> TRUE, retry_after |-> 0,
          urgency |-> "none"]

\* the exception a statement of the try block raises on a response: the
\* AttributeError of analysis_data.get on a list, the ValueError of float();
\* neither message holds a phrase the except branch searches for
StructuringError(o) ==
    [kind |-> "exc", status |-> 0, phrases |-> {}, urgency |-> "none"]

\* variant: a response that cannot be parsed is marked as worth a retry
StructuredResultParseRetried(o) ==
    IF o.kind = "json"
    THEN [error |-> "none", retry |-> FALSE, retry_after |-> 0,
          urgency |-> o.urgency]
    ELSE IF o.kind = "garbage"
    THEN [error |-> "parse", retry |-> TRUE, retry_after |-> 0,
          urgency |-> "none"]
    ELSE ErrorResult(StructuringError(o))

\* variant: a try block that ends before the response is structured, so
\* that what the structuring raises leaves analyze_feedback
StructuredResultUncaught(o) ==
    IF o.kind = "json"
    THEN [error |-> "none", retry |-> FALSE, retry_after |-> 0,
          urgency |-> o.urgency]
    ELSE IF o.kind = "garbage"
    THEN [error |-> "parse", retry |-> FALSE, retry_after |-> 0,
          urgency |-> "none"]
    ELSE [error |-> "raised", retry |-> FALSE, retry_after |-> 0,
          urgency |-> "none"]

\* gemini_service.py 96-140: the response parsed and structured.  Text that
\* json.loads rejects gives the parse error, without "retry"; what the
\* structuring raises is caught by the except branch (142-164)
StructuredResult(o) ==
    IF o.kind = "json"
    THEN [error |-> "none", retry |-> FALSE, retry_after |-> 0,
          urgency |-> o.urgency]
    ELSE IF o.kind = "garbage"
    THEN [error |-> "parse", retry |-> FALSE, retry_after |-> 0,
          urgency |-> "none"]
    ELSE ErrorResult(StructuringError(o))

\* gemini_service.py 54-164: one call of analyze_feedback
AnalyzeFeedback(cfg, o) ==
    IF ~cfg THEN NotConfiguredResult
    ELSE IF o.kind = "exc" THEN ErrorResult(o)
    ELSE StructuredResult(o)

---------------------------------------------------------------------------
(* The body of the retry loop after analyze_feedback returned, attempt     *)
(* being the loop index: return the result, or sleep and go round again.   *)

Stop == [do |-> "return", wait |-> 0]

\* variant: a loop that never goes round again
NextActionNoRetry(attempt, result) == Stop

\* variant: a backoff of 2 * (attempt + 1) seconds, not 2 ** attempt

NextActionDoubling(attempt, result) ==
    IF result.error = "none" THEN Stop
    ELSE IF ~result.retry THEN Stop
    ELSE IF attempt < MAX_RETRIES - 1
    THEN [do |-> "sleep", wait |-> 2 * (attempt + 1)]
    ELSE Stop

\* gemini_service.py 190-203
NextAction(attempt, result) ==
    IF result.error = "none" THEN Stop
    ELSE IF ~result.retry THEN Stop
    ELSE IF attempt < MAX_RETRIES - 1
    THEN [do |-> "sleep", wait |-> 2 ^ attempt]
    ELSE Stop

\* the sequences of outcomes the classifier can give one run
OutcomeSeqs == [1..MAX_RETRIES -> Outcomes]

(* The loop from iteration attempt on, outs[attempt + 1] being the outcome *)
(* of this iteration's classifier call; run is what happened so far:       *)
(* passes of the loop, calls sent to the classifier, waits slept, what     *)
(* analyze_feedback returned each time, and the last result.               *)
RECURSIVE LoopFrom(_, _, _, _)
\* gemini_service.py 181-203
LoopFrom(cfg, outs, attempt, run) ==
    LET result == AnalyzeFeedback(cfg, outs[attempt + 1])
        next == NextAction(attempt, result)
        now == [run EXCEPT !.passes = @ + 1,
                           !.calls = IF cfg THEN @ + 1 ELSE @,
                           !.results = Append(@, result),
                           !.result = result]
    IN IF next.do = "sleep"
       THEN LoopFrom(cfg, outs, attempt + 1,
                     [now EXCEPT !.waits = Append(@, next.wait)])
       ELSE now

NotRun ==
    [passes |-> 0, calls |-> 0, waits |-> << >>, results |-> << >>,
     result |-> NoResult]

\* gemini_service.py 166-203: analyze_feedback_with_retry
RetryLoop(cfg, outs) == LoopFrom(cfg, outs, 0, NotRun)

\* the results analyze_feedback_with_retry can return
LoopResults == [cfg \in BOOLEAN |->
                   { RetryLoop(cfg, outs).result : outs \in OutcomeSeqs }]

---------------------------------------------------------------------------
(* Where a background task goes once analyze_feedback_with_retry has       *)
(* returned: analyze_feedback_async returns None on an error and the task  *)
(* marks the record failed, otherwise the row is added and committed.      *)

\* variant: a failed analysis ends the task without marking the record
AfterRetryDropFailure(result) ==
    IF result.error # "none" THEN "done" ELSE "commit"

\* variant: the row is stored whatever the result holds
AfterRetryPersistAlways(result) == "commit"

\* feedback_service.py 161-167, routers/feedback.py 126, 132-134
AfterRetry(result) ==
    IF result.error # "none" THEN "mark_failed" ELSE "commit"

\* variant: every analysis raises the urgent alert
AfterCompleteAlertAlways(urgency) == "urgent_alert"

\* routers/feedback.py 128: once analysis_complete is out, the urgent alert
\* follows for urgency "critical" and for no other
AfterComplete(urgency) ==
    IF urgency = "critical" THEN "urgent_alert" ELSE "done"

---------------------------------------------------------------------------
(* Tables. *)

Ids == 1..Len(feedback)

\* the rows of table analysis that belong to a record
AnalysisRows(id) == { i \in 1..Len(analysis) : analysis[i].feedback_id = id }

HasAnalysis(id) == AnalysisRows(id) # {}

\* Feedback.analysis, the relationship with uselist=False
AnalysisOf(id) == CHOOSE i \in AnalysisRows(id) : TRUE

(* A background task: where it is (pc), its argument feedback_id, and the   *)
(* locals of the calls it is in: whether the status its session loaded was *)
(* "reviewed" (the one thing the commit asks of it), the Analysis row it   *)
(* holds (0 for none) and the result of the retry loop.                    *)
(* failed and raised are kept for the properties: whether the retry loop   *)
(* of the run returned a result that carried an error, and the exception   *)
(* the task's except clause caught ("IntegrityError" of the commit,        *)
(* "publish" of an emit).                                                  *)
NewTask(id) ==
    [pc |-> "queued", feedback_id |-> id, loaded |-> "none", analysis |-> 0,
     result |-> NoResult, failed |-> FALSE, raised |-> "none"]

\* variant: the task goes to the urgent alert first
ReturnedToAlert(task, row) ==
    [NewTask(task.feedback_id) EXCEPT !.pc = "urgent_alert", !.analysis = row]

\* analyze_feedback_async has returned the row: its locals are gone
Returned(task, row) ==
    [NewTask(task.feedback_id) EXCEPT !.pc = "emit_complete", !.analysis = row]

\* whether the task's retry loop returned an error
HadError(task) == task.failed \/ task.result.error \notin {"unset", "none"}

\* analyze_feedback_async has returned None or raised: its locals are gone
Failing(task) ==
    [NewTask(task.feedback_id) EXCEPT !.pc = "mark_failed",
                                      !.failed = HadError(task)]

\* routers/feedback.py 135-137: an exception reached the task's except clause
Raising(task, exc) == [Failing(task) EXCEPT !.raised = exc]

\* the task has ended
Finished(task) ==
    [NewTask(task.feedback_id) EXCEPT
        !.pc = "done",
        !.failed = HadError(task),
        !.raised = task.raised]

\* no helper function is under study
NotApplied == [name |-> "none"]

Event(kind, id, run) == [kind |-> kind, feedback_id |-> id, run |-> run]

Init ==
    /\ configured \in BOOLEAN
    /\ feedback = << >>
    /\ analysis = << >>
    /\ actions = << >>
    /\ events = << >>
    /\ tasks = << >>
    /\ loop = [outcomes |-> << >>, run |-> NotRun]
    /\ fn = NotApplied


---------------------------------------------------------------------------
(* The request handlers. *)

StaffStatuses == {"reviewed", "in_progress", "resolved"}

\* routers/feedback.py 86-117 with FeedbackService.create_feedback and
\* emit_new_feedback: the row is committed as pending_analysis, new_feedback
\* is emitted and the background analysis is added.  When the emit raises
\* (delivered is FALSE) the handler's except clause answers 500: the row
\* stays committed and no background task is added
CreateFeedback(delivered) ==
    /\ Len(feedback) < MaxRecords
    /\ Len(tasks) < MaxTasks
    /\ feedback' = Append(feedback, [status |-> "pending_analysis"])
    /\ IF delivered
       THEN /\ events' = Append(events,
                                Event("new_feedback", Len(feedback) + 1, 0))
            /\ tasks' = Append(tasks, NewTask(Len(feedback) + 1))
       ELSE UNCHANGED <<events, tasks>>
    /\ UNCHANGED <<configured, analysis, actions, loop, fn>>

\* variant: the retry starts the task and leaves the status as it is
RetryAnalysisNoReset(id) ==
    /\ id \in Ids
    /\ Len(tasks) < MaxTasks
    /\ tasks' = Append(tasks, NewTask(id))
    /\ UNCHANGED <<configured, feedback, analysis, actions, events, loop, fn>>

\* routers/feedback.py 343-365
RetryAnalysis(id) ==
    /\ id \in Ids
    /\ Len(tasks) < MaxTasks
    /\ feedback' = IF feedback[id].status = "analysis_failed"
                   THEN [feedback EXCEPT ![id].status = "pending_analysis"]
                   ELSE feedback
    /\ tasks' = Append(tasks, NewTask(id))
    /\ UNCHANGED <<configured, analysis, actions, events, loop, fn>>

\* variant: the Action row is added without the record being looked up
UpdateFeedbackNoLookup(id, status) ==
    /\ status \in StaffStatuses
    /\ feedback' = IF id \in Ids
                   THEN [feedback EXCEPT ![id].status = status]
                   ELSE feedback
    /\ actions' = Append(actions, [feedback_id |-> id, status |-> status])
    /\ UNCHANGED <<configured, analysis, events, tasks, loop, fn>>

\* routers/feedback.py 322-340 with FeedbackService.update_feedback_status:
\* the status FeedbackUpdate admits is written, whatever the record's status
\* was, and an Action row is added in the same commit; an id that no record
\* has is answered 404 and nothing is written
UpdateFeedback(id, status) ==
    /\ status \in StaffStatuses
    /\ IF id \in Ids
       THEN /\ feedback' = [feedback EXCEPT ![id].status = status]
            /\ actions' = Append(actions,
                                 [feedback_id |-> id, status |-> status])
       ELSE UNCHANGED <<feedback, actions>>
    /\ UNCHANGED <<configured, analysis, events, tasks, loop, fn>>

---------------------------------------------------------------------------
(* The background task analyze_feedback_background, one action per await   *)
(* that touches the database or the staff room.                            *)

\* get_feedback_by_id(db, feedback_id) found a record
Found(id) == id \in Ids

\* where a task that found no analysis stands once the retry loop returned
Called(task, status, result) ==
    CASE AfterRetry(result) = "commit" ->
           [task EXCEPT !.pc = "commit", !.result = result,
                        !.loaded = IF status = "reviewed" THEN "reviewed"
                                   ELSE "other"]
      [] AfterRetry(result) = "mark_failed" ->
           Failing([task EXCEPT !.result = result])
      [] OTHER -> Finished([task EXCEPT !.result = result])

\* variant: the load without the test for an existing analysis
AnalyzeFeedbackAsyncLoadNoCheck(t, result) ==
    /\ tasks[t].pc = "queued"
    /\ result \in LoopResults[configured]
    /\ tasks' = [tasks EXCEPT ![t] =
                    IF ~Found(tasks[t].feedback_id)
                    THEN Failing(@)
                    ELSE Called(@, feedback[tasks[t].feedback_id].status,
                                result)]
    /\ UNCHANGED <<configured, feedback, analysis, actions, events, loop, fn>>

\* variant: the load without the test for a missing record, where reading
\* feedback.analysis of None raises
AnalyzeFeedbackAsyncLoadNoLookup(t, result) ==
    /\ tasks[t].pc = "queued"
    /\ result \in LoopResults[configured]
    /\ LET id == tasks[t].feedback_id IN
       tasks' = [tasks EXCEPT ![t] =
                    IF ~Found(id)
                    THEN Raising(@, "AttributeError")
                    ELSE IF HasAnalysis(id)
                    THEN Returned(@, AnalysisOf(id))
                    ELSE Called(@, feedback[id].status, result)]
    /\ UNCHANGED <<configured, feedback, analysis, actions, events, loop, fn>>

\* feedback_service.py 143-167 with routers/feedback.py 126, 132-134: the
\* record is loaded with its analysis.  No record: None is returned, no
\* classifier is called and the task takes its else branch.  A record that
\* owns an analysis gives it back and the task goes on to emit.  Otherwise
\* the retry loop runs and returns
\* one of its results; the loop reads and writes nothing the tasks share, so
\* it is taken in the step of the load, and the session goes on with what it
\* loaded
AnalyzeFeedbackAsyncLoad(t, result) ==
    /\ tasks[t].pc = "queued"
    /\ result \in LoopResults[configured]
    /\ LET id == tasks[t].feedback_id IN
       tasks' = [tasks EXCEPT ![t] =
                    IF ~Found(id)
                    THEN Failing(@)
                    ELSE IF HasAnalysis(id)
                    THEN Returned(@, AnalysisOf(id))
                    ELSE Called(@, feedback[id].status, result)]
    /\ UNCHANGED <<configured, feedback, analysis, actions, events, loop, fn>>

\* variant: a table analysis without the unique constraint on feedback_id
CommitAnalysisNoConstraint(t) ==
    /\ tasks[t].pc = "commit"
    /\ LET task == tasks[t]
           id == task.feedback_id
       IN /\ analysis' = Append(analysis,
                 [feedback_id |-> id, urgency |-> task.result.urgency,
                  run |-> t])
          /\ feedback' = IF task.loaded # "reviewed"
                         THEN [feedback EXCEPT ![id].status = "reviewed"]
                         ELSE feedback
          /\ tasks' = [tasks EXCEPT ![t] = Returned(@, Len(analysis) + 1)]
    /\ UNCHANGED <<configured, actions, events, loop, fn>>

\* variant: the commit writes status reviewed without a WHERE on the id
CommitAnalysisEveryRecord(t) ==
    /\ tasks[t].pc = "commit"
    /\ ~HasAnalysis(tasks[t].feedback_id)
    /\ analysis' = Append(analysis,
           [feedback_id |-> tasks[t].feedback_id,
            urgency |-> tasks[t].result.urgency, run |-> t])
    /\ feedback' = [i \in Ids |-> [status |-> "reviewed"]]
    /\ tasks' = [tasks EXCEPT ![t] = Returned(@, Len(analysis) + 1)]
    /\ UNCHANGED <<configured, actions, events, loop, fn>>

\* variant: analysis_complete goes out as the commit is made, to observers
\* who still see the record without its analysis
CommitAnalysisEmitFirst(t) ==
    /\ tasks[t].pc = "commit"
    /\ ~HasAnalysis(tasks[t].feedback_id)
    /\ LET task == tasks[t]
           id == task.feedback_id
       IN /\ events' = Append(events, Event("analysis_complete", id, t))
          /\ analysis' = Append(analysis,
                 [feedback_id |-> id, urgency |-> task.result.urgency,
                  run |-> t])
          /\ feedback' = [feedback EXCEPT ![id].status = "reviewed"]
          /\ tasks' = [tasks EXCEPT ![t] = Returned(@, Len(analysis) + 1)]
    /\ UNCHANGED <<configured, actions, loop, fn>>

\* feedback_service.py 174-194: the Analysis row and status reviewed in one
\* commit.  The unit of work writes status only when it differs from the
\* value this session loaded; a row for the same feedback_id already in the
\* table violates unique=True (models/analysis.py 10), the commit raises and
\* the task's except clause takes over (routers/feedback.py 135-137)
CommitAnalysis(t) ==
    /\ tasks[t].pc = "commit"
    /\ LET task == tasks[t]
           id == task.feedback_id
       IN IF HasAnalysis(id)
          THEN /\ tasks' = [tasks EXCEPT ![t] = Raising(@, "IntegrityError")]
               /\ UNCHANGED <<feedback, analysis>>
          ELSE /\ analysis' = Append(analysis,
                      [feedback_id |-> id, urgency |-> task.result.urgency,
                       run |-> t])
               /\ feedback' = IF task.loaded # "reviewed"
                              THEN [feedback EXCEPT ![id].status = "reviewed"]
                              ELSE feedback
               /\ tasks' = [tasks EXCEPT ![t] = Returned(@, Len(analysis) + 1)]
    /\ UNCHANGED <<configured, actions, events, loop, fn>>

\* routers/feedback.py 126-128 with emit_analysis_complete (events.py
\* 114-125); an emit that raises (delivered is FALSE) publishes nothing and
\* is caught by the task's except clause (routers/feedback.py 135-137)
EmitAnalysisComplete(t, delivered) ==
    /\ tasks[t].pc = "emit_complete"
    /\ IF delivered
       THEN /\ events' = Append(events,
                          Event("analysis_complete", tasks[t].feedback_id, t))
            /\ tasks' = [tasks EXCEPT ![t] =
                            IF AfterComplete(analysis[tasks[t].analysis].urgency)
                                  = "urgent_alert"
                            THEN [@ EXCEPT !.pc = "urgent_alert"]
                            ELSE Finished(@)]
       ELSE /\ tasks' = [tasks EXCEPT ![t] = Raising(@, "publish")]
            /\ UNCHANGED events
    /\ UNCHANGED <<configured, feedback, analysis, actions, loop, fn>>

\* routers/feedback.py 129-131 with emit_urgent_alert (events.py 95-111)
EmitUrgentAlert(t, delivered) ==
    /\ tasks[t].pc = "urgent_alert"
    /\ tasks[t].feedback_id \in Ids
    /\ IF delivered
       THEN /\ events' = Append(events,
                               Event("urgent_alert", tasks[t].feedback_id, t))
            /\ tasks' = [tasks EXCEPT ![t] = Finished(@)]
       ELSE /\ tasks' = [tasks EXCEPT ![t] = Raising(@, "publish")]
            /\ UNCHANGED events
    /\ UNCHANGED <<configured, feedback, analysis, actions, loop, fn>>

\* FeedbackService.mark_analysis_failed, called at routers/feedback.py 133
\* and 137; section 4.4 step 4: mark the record analysis_failed.  Where no
\* record has the id there is none to mark
MarkAnalysisFailed(t) ==
    /\ tasks[t].pc = "mark_failed"
    /\ feedback' = IF Found(tasks[t].feedback_id)
                   THEN [feedback EXCEPT ![tasks[t].feedback_id].status =
                                             "analysis_failed"]
                   ELSE feedback
    /\ tasks' = [tasks EXCEPT ![t] = Finished(@)]
    /\ UNCHANGED <<configured, analysis, actions, events, loop, fn>>

\* feedback_service.py 108-133, the filter on priority: the ids of the
\* records returned (the limit taken to be larger than the table).  A
\* record is dropped only when it owns an analysis of another urgency
GetAllFeedback(priority) ==
    { id \in Ids :
        ~(HasAnalysis(id) /\ analysis[AnalysisOf(id)].urgency # priority) }

\* routers/feedback.py 216-261: the ids in "urgent_feedbacks"
GetUrgentFeedback == GetAllFeedback("critical")

Results == UNION { LoopResults[cfg] : cfg \in BOOLEAN }

(* The program with a staff room that takes every emit: sio.emit returns.  *)
Next ==
    \/ CreateFeedback(TRUE)
    \/ \E id \in Ids : RetryAnalysis(id)
    \/ \E id \in Ids, status \in StaffStatuses :
          Len(actions) < MaxUpdates /\ UpdateFeedback(id, status)
    \/ \E t \in DOMAIN tasks, r \in Results : AnalyzeFeedbackAsyncLoad(t, r)
    \/ \E t \in DOMAIN tasks : CommitAnalysis(t)
    \/ \E t \in DOMAIN tasks : EmitAnalysisComplete(t, TRUE)
    \/ \E t \in DOMAIN tasks : EmitUrgentAlert(t, TRUE)
    \/ \E t \in DOMAIN tasks : MarkAnalysisFailed(t)

Spec == Init /\ [][Next]_vars

(* The program with emits that may raise as well. *)
NextPublish ==
    \/ Next
    \/ CreateFeedback(FALSE)
    \/ \E t \in DOMAIN tasks : EmitAnalysisComplete(t, FALSE)
    \/ \E t \in DOMAIN tasks : EmitUrgentAlert(t, FALSE)

SpecPublish == Init /\ [][NextPublish]_vars

\* a step of background task t
TaskStep(t) ==
    /\ t \in DOMAIN tasks
    /\ \/ \E r \in Results : AnalyzeFeedbackAsyncLoad(t, r)
       \/ CommitAnalysis(t)
       \/ \E delivered \in BOOLEAN : EmitAnalysisComplete(t, delivered)
       \/ \E delivered \in BOOLEAN : EmitUrgentAlert(t, delivered)
       \/ MarkAnalysisFailed(t)

(* The event loop runs every background task that was added: a task that   *)
(* can take its next step takes it in the end (each await returns: the     *)
(* database answers, the classifier call returns or raises, the emit       *)
(* returns or raises).  The requests are the callers' and are owed         *)
(* nothing.                                                                *)
SpecPublishFair ==
    SpecPublish /\ \A t \in 1..MaxTasks : WF_vars(TaskStep(t))

---------------------------------------------------------------------------
(* The retry loop on its own: the outcomes of the classifier calls of one  *)
(* run are drawn, and the loop is applied to them.                         *)

InitRetry ==
    /\ configured \in BOOLEAN
    /\ feedback = << >>
    /\ analysis = << >>
    /\ actions = << >>
    /\ events = << >>
    /\ tasks = << >>
    /\ loop \in [outcomes : OutcomeSeqs, run : {NotRun}]
    /\ fn = NotApplied

RunRetryLoop ==
    /\ loop.run = NotRun
    /\ loop' = [loop EXCEPT !.run = RetryLoop(configured, loop.outcomes)]
    /\ UNCHANGED <<configured, feedback, analysis, actions, events, tasks, fn>>

NextRetry == RunRetryLoop

SpecRetry == InitRetry /\ [][NextRetry]_vars

---------------------------------------------------------------------------
(* Records side by side: each was created and its background task added,   *)
(* and the tasks run interleaved with each other and with the staff        *)
(* updates.                                                                *)

\* records whose enrichments run side by side
MaxConcurrent == 2

InitPair ==
    /\ configured \in BOOLEAN
    /\ feedback = [i \in 1..MaxConcurrent |-> [status |-> "pending_analysis"]]
    /\ analysis = << >>
    /\ actions = << >>
    /\ events = [i \in 1..MaxConcurrent |-> Event("new_feedback", i, 0)]
    /\ tasks = [i \in 1..MaxConcurrent |-> NewTask(i)]
    /\ loop = [outcomes |-> << >>, run |-> NotRun]
    /\ fn = NotApplied

NextPair ==
    \/ \E id \in Ids, status \in StaffStatuses :
          Len(actions) < MaxUpdates /\ UpdateFeedback(id, status)
    \/ \E t \in DOMAIN tasks, r \in Results : AnalyzeFeedbackAsyncLoad(t, r)
    \/ \E t \in DOMAIN tasks : CommitAnalysis(t)
    \/ \E t \in DOMAIN tasks : EmitAnalysisComplete(t, TRUE)
    \/ \E t \in DOMAIN tasks : EmitUrgentAlert(t, TRUE)
    \/ \E t \in DOMAIN tasks : MarkAnalysisFailed(t)

SpecPair == InitPair /\ [][NextPair]_vars

---------------------------------------------------------------------------
(* analyze_feedback_background called with an id that no record has: a     *)
(* record was created and its task added, and beside it runs a task whose  *)
(* feedback_id is the next id, which the table has not given out.          *)

InitUnknown ==
    /\ configured \in BOOLEAN
    /\ feedback = <<[status |-> "pending_analysis"]>>
    /\ analysis = << >>
    /\ actions = << >>
    /\ events = <<Event("new_feedback", 1, 0)>>
    /\ tasks = <<NewTask(1), NewTask(2)>>
    /\ loop = [outcomes |-> << >>, run |-> NotRun]
    /\ fn = NotApplied

NextUnknown ==
    \/ \E id \in Ids, status \in StaffStatuses :
          Len(actions) < MaxUpdates /\ UpdateFeedback(id, status)
    \/ \E t \in DOMAIN tasks : TaskStep(t)

SpecUnknown == InitUnknown /\ [][NextUnknown]_vars

---------------------------------------------------------------------------
(* The staff updates on their own: records at rest, which no background    *)
(* task is working on, and the update requests made on them, with ids that *)
(* a record has and one that none has.                                     *)

\* records at rest
StaffRecords == 2
\* update_feedback requests that add a row
MaxStaffUpdates == 2

\* the ids a request may carry: those of the records and one that none has
RequestIds == 1..(Len(feedback) + 1)

\* a record at rest was never analysed, failed to be, or owns its analysis
RestStatuses == {"pending_analysis", "analysis_failed", "reviewed"}

\* the analysis rows of the first n records of f, one per reviewed record
RECURSIVE RowsAtRest(_, _)
RowsAtRest(f, n) ==
    IF n = 0 THEN << >>
    ELSE IF f[n].status = "reviewed"
    THEN Append(RowsAtRest(f, n - 1),
                [feedback_id |-> n, urgency |-> "medium", run |-> 0])
    ELSE RowsAtRest(f, n - 1)

InitStaff ==
    /\ configured = TRUE
    /\ feedback \in [1..StaffRecords -> [status : RestStatuses]]
    /\ analysis = RowsAtRest(feedback, StaffRecords)
    /\ actions = << >>
    /\ events = [i \in 1..StaffRecords |-> Event("new_feedback", i, 0)]
    /\ tasks = << >>
    /\ loop = [outcomes |-> << >>, run |-> NotRun]
    /\ fn = NotApplied

NextStaff ==
    \E id \in RequestIds, status \in StaffStatuses :
        Len(actions) < MaxStaffUpdates /\ UpdateFeedback(id, status)

SpecStaff == InitStaff /\ [][NextStaff]_vars

---------------------------------------------------------------------------
(* The preview of a feedback text in a notification (events.py 88, 106).   *)
(* A text is the sequence of its characters; the character at a place      *)
(* depends on the place, so that the first characters are told from the    *)
(* others.                                                                 *)

\* the longest text drawn
MaxTextLen == 250

\* feedback.feedback_text[:100] of emit_new_feedback
NEW_FEEDBACK_PREVIEW == 100
\* feedback.feedback_text[:200] of emit_urgent_alert
URGENT_ALERT_PREVIEW == 200

Letter(i) == <<"a", "b", "c">>[(i % 3) + 1]

Text(n) == [i \in 1..n |-> Letter(i)]

Ellipsis == <<".", ".", ".">>

\* variant: a text of exactly the limit is cut too
PreviewAtLimit(text, limit) ==
    IF Len(text) >= limit THEN SubSeq(text, 1, limit) \o Ellipsis ELSE text

\* text[:limit] + '...' if len(text) > limit else text
Preview(text, limit) ==
    IF Len(text) > limit THEN SubSeq(text, 1, limit) \o Ellipsis ELSE text

PreviewLimit == [new_feedback |-> NEW_FEEDBACK_PREVIEW,
                 urgent_alert |-> URGENT_ALERT_PREVIEW]

InitPreview ==
    /\ configured = TRUE
    /\ feedback = << >>
    /\ analysis = << >>
    /\ actions = << >>
    /\ events = << >>
    /\ tasks = << >>
    /\ loop = [outcomes |-> << >>, run |-> NotRun]
    /\ fn \in { [name |-> "preview", event |-> e, text |-> Text(n),
                  built |-> FALSE, preview |-> << >>] :
                    e \in DOMAIN PreviewLimit, n \in 0..MaxTextLen }

\* events.py 79-92: the payload of new_feedback is built
EmitNewFeedbackPreview ==
    /\ fn.event = "new_feedback"
    /\ ~fn.built
    /\ fn' = [fn EXCEPT !.built = TRUE,
                        !.preview = Preview(fn.text, NEW_FEEDBACK_PREVIEW)]
    /\ UNCHANGED <<configured, feedback, analysis, actions, events, tasks, loop>>

\* events.py 95-111: the payload of urgent_alert is built
EmitUrgentAlertPreview ==
    /\ fn.event = "urgent_alert"
    /\ ~fn.built
    /\ fn' = [fn EXCEPT !.built = TRUE,
                        !.preview = Preview(fn.text, URGENT_ALERT_PREVIEW)]
    /\ UNCHANGED <<configured, feedback, analysis, actions, events, tasks, loop>>

NextPreview == EmitNewFeedbackPreview \/ EmitUrgentAlertPreview

SpecPreview == InitPreview /\ [][NextPreview]_vars

---------------------------------------------------------------------------
(* parse_json_safely (helpers.py 22-32) on the text of a response.  A text *)
(* is a sequence of tokens: a backtick, the word json, a whitespace        *)
(* character (blank or newline), an opening and a closing brace, and "x"   *)
(* for any other piece of content.                                         *)

\* the longest payload drawn
MaxPayloadLen == 5

Tokens == {"tick", "json", "ws", "{", "}", "x"}

Payloads == UNION { [1..n -> Tokens] : n \in 0..MaxPayloadLen }

FenceMark == <<"tick", "tick", "tick">>

StartsWith(s, p) == Len(s) >= Len(p) /\ SubSeq(s, 1, Len(p)) = p

\* the whitespace at the head of s is consumed
RECURSIVE SkipSpace(_)
SkipSpace(s) ==
    IF s # << >> /\ Head(s) = "ws" THEN SkipSpace(Tail(s)) ELSE s

\* re.sub of p followed by whitespace: every match, from the left, is taken out
RECURSIVE ReSub(_, _)
ReSub(p, s) ==
    IF s = << >> THEN << >>
    ELSE IF StartsWith(s, p)
    THEN ReSub(p, SkipSpace(SubSeq(s, Len(p) + 1, Len(s))))
    ELSE <<Head(s)>> \o ReSub(p, Tail(s))

\* str.strip()
RECURSIVE StripRight(_)
StripRight(s) ==
    IF s # << >> /\ s[Len(s)] = "ws"
    THEN StripRight(SubSeq(s, 1, Len(s) - 1))
    ELSE s

Strip(s) == StripRight(SkipSpace(s))

None == [ok |-> FALSE, value |-> << >>]

\* json.loads on an object: braces around content that holds no brace; the
\* whitespace between the pieces of content does not count.  Anything else
\* raises JSONDecodeError
JsonLoads(s) ==
    IF /\ Len(s) >= 2
       /\ s[1] = "{"
       /\ s[Len(s)] = "}"
       /\ \A i \in 2..(Len(s) - 1) : s[i] \notin {"{", "}"}
    THEN [ok |-> TRUE,
          value |-> SelectSeq(SubSeq(s, 2, Len(s) - 1), LAMBDA c : c # "ws")]
    ELSE None

\* variant: only a fence that carries the json label is taken out
ParseLabelledFenceOnly(json_str) ==
    JsonLoads(Strip(ReSub(FenceMark \o <<"json">>, json_str)))

\* helpers.py 22-32
ParseJsonSafely(json_str) ==
    JsonLoads(Strip(ReSub(FenceMark,
                          ReSub(FenceMark \o <<"json">>, json_str))))

\* a payload in a markdown code fence, with or without the json label
Fenced(payload, labelled) ==
    FenceMark \o (IF labelled THEN <<"json">> ELSE << >>) \o <<"ws">>
        \o payload \o <<"ws">> \o FenceMark

InitParse ==
    /\ configured = TRUE
    /\ feedback = << >>
    /\ analysis = << >>
    /\ actions = << >>
    /\ events = << >>
    /\ tasks = << >>
    /\ loop = [outcomes |-> << >>, run |-> NotRun]
    /\ fn \in { [name |-> "parse", payload |-> p, labelled |-> l,
                  parsed |-> FALSE, bare |-> None, fenced |-> None] :
                    p \in Payloads, l \in BOOLEAN }

\* the payload is parsed as it is and in its fence
ParseBoth ==
    /\ ~fn.parsed
    /\ fn' = [fn EXCEPT !.parsed = TRUE,
                        !.bare = ParseJsonSafely(fn.payload),
                        !.fenced = ParseJsonSafely(
                                       Fenced(fn.payload, fn.labelled))]
    /\ UNCHANGED <<configured, feedback, analysis, actions, events, tasks, loop>>

NextParse == ParseBoth

SpecParse == InitParse /\ [][NextParse]_vars

---------------------------------------------------------------------------
(* The parsed response made into the result of analyze_feedback            *)
(* (gemini_service.py 96-140 with helpers.py 35-77).  analysis_data is the *)
(* dict json.loads gave: a function from the keys the classifier sent to   *)
(* what it sent for them.  The dict-valued fields (urgency, categories,    *)
(* medical_concerns) come with some of their keys.                         *)

Fields == {"sentiment", "confidence_score", "emotions", "urgency",
           "categories", "medical_concerns", "actionable_insights",
           "key_points"}

UrgencySent == [level |-> "high", reason |-> "in pain", flags |-> <<"pain">>]

CategoriesSent == [primary |-> "care", subcategories |-> <<"waiting">>]

MedicalKeys == {"symptoms", "complications", "treatment_side_effects",
                "medication_issues"}

\* dict d with the keys of K only
Restrict(d, K) == [k \in K |-> d[k]]

\* the object whose keys are present; the dict-valued fields hold the keys
\* given for them
AnalysisData(present, urgencyKeys, categoryKeys, medicalKeys) ==
    [k \in present |->
        CASE k = "sentiment" -> "negative"
          [] k = "confidence_score" -> "0.9"
          [] k = "emotions" -> <<"fear">>
          [] k = "urgency" -> Restrict(UrgencySent, urgencyKeys)
          [] k = "categories" -> Restrict(CategoriesSent, categoryKeys)
          [] k = "medical_concerns" -> [c \in medicalKeys |-> <<"sent">>]
          [] k = "actionable_insights" -> "call the patient"
          [] OTHER -> <<"late">>]

Objects ==
    { AnalysisData(present, u, c, m) :
        present \in SUBSET Fields,
        u \in {{}, DOMAIN UrgencySent},
        c \in {{}, DOMAIN CategoriesSent},
        m \in SUBSET MedicalKeys }

\* dict.get(key, default)
Get(d, key, default) == IF key \in DOMAIN d THEN d[key] ELSE default

EmptyDict == [k \in {} |-> "None"]

\* helpers.py 68-77, for a dict
ExtractMedicalConcerns(concerns_data) ==
    [c \in MedicalKeys |-> Get(concerns_data, c, << >>)]

\* gemini_service.py 99-140: an empty dict is not "if analysis_data" and is
\* answered as a response that could not be parsed
Structure(analysis_data) ==
    IF DOMAIN analysis_data = {}
    THEN [error |-> "parse"]
    ELSE [error |-> "none",
          sentiment |-> Get(analysis_data, "sentiment", "neutral"),
          confidence_score |-> Get(analysis_data, "confidence_score", "0.5"),
          emotions |-> Get(analysis_data, "emotions", << >>),
          urgency |-> Get(Get(analysis_data, "urgency", EmptyDict),
                          "level", "low"),
          urgency_reason |-> Get(Get(analysis_data, "urgency", EmptyDict),
                                 "reason", "None"),
          urgency_flags |-> Get(Get(analysis_data, "urgency", EmptyDict),
                                "flags", << >>),
          primary_category |-> Get(Get(analysis_data, "categories", EmptyDict),
                                   "primary", "None"),
          subcategories |-> Get(Get(analysis_data, "categories", EmptyDict),
                                "subcategories", << >>),
          medical_concerns |-> ExtractMedicalConcerns(
                                   Get(analysis_data, "medical_concerns",
                                       EmptyDict)),
          actionable_insights |-> Get(analysis_data, "actionable_insights", ""),
          key_points |-> Get(analysis_data, "key_points", << >>)]

InitStructure ==
    /\ configured = TRUE
    /\ feedback = << >>
    /\ analysis = << >>
    /\ actions = << >>
    /\ events = << >>
    /\ tasks = << >>
    /\ loop = [outcomes |-> << >>, run |-> NotRun]
    /\ fn \in { [name |-> "structure", analysis_data |-> d,
                  structured |-> FALSE, result |-> [error |-> "unset"]] :
                    d \in Objects }

\* the parsed object is made into the result
StructureResponse ==
    /\ ~fn.structured
    /\ fn' = [fn EXCEPT !.structured = TRUE,
                        !.result = Structure(fn.analysis_data)]
    /\ UNCHANGED <<configured, feedback, analysis, actions, events, tasks, loop>>

NextStructure == StructureResponse

SpecStructure == InitStructure /\ [][NextStructure]_vars

---------------------------------------------------------------------------
(* What the properties speak of. *)

\* how many events of a kind were emitted for a record
Count(kind, id) ==
    Cardinality({ i \in 1..Len(events) :
                    events[i].kind = kind /\ events[i].feedback_id = id })

\* the rows and the analysis events that come from run t
RowsOf(t) == { i \in 1..Len(analysis) : analysis[i].run = t }

PublishedBy(t) ==
    { i \in 1..Len(events) :
        /\ events[i].run = t
        /\ events[i].kind \in {"analysis_complete", "urgent_alert"} }

\* The taxonomy of failed classifier calls (section 4.1 of the design):
\* 5xx, timeout and connection errors are Transient, a 429 is RateLimited,
\* any other 4xx is Permanent
Transient(o) ==
    /\ o.kind = "exc"
    /\ o.status >= 500 \/ "timeout" \in o.phrases \/ "connection" \in o.phrases

RateLimited(o) == o.kind = "exc" /\ o.status = 429

Permanent(o) ==
    o.kind = "exc" /\ o.status >= 400 /\ o.status < 500 /\ o.status # 429

\* the loop has run, with a classifier to call
LoopRan == configured /\ loop.run # NotRun

AlwaysTransient == \A i \in 1..MAX_RETRIES : Transient(loop.outcomes[i])

---------------------------------------------------------------------------
(* C1.  A task that starts on a record which already owns an Analysis row  *)
(* does not enter the retry loop (no classifier call), leaves the analysis *)
(* table as it is and holds the existing row; and no step ever leaves a    *)
(* record with more than one Analysis row.                                 *)
C1_SecondEnrichReturnsExisting ==
    [][ /\ \A t \in DOMAIN tasks :
              ( /\ tasks[t].pc = "queued"
                /\ tasks'[t].pc # "queued"
                /\ HasAnalysis(tasks[t].feedback_id) )
              => /\ analysis' = analysis
                 /\ tasks'[t].pc = "emit_complete"
                 /\ tasks'[t].result = NoResult
                 /\ tasks'[t].analysis = AnalysisOf(tasks[t].feedback_id)
        /\ \A i, j \in 1..Len(analysis') :
              analysis'[i].feedback_id = analysis'[j].feedback_id => i = j
      ]_vars

\* a later run holds the row an earlier run created
C1_Witness ==
    \E t \in DOMAIN tasks :
        /\ tasks[t].pc = "emit_complete"
        /\ analysis[tasks[t].analysis].run # t
        /\ analysis[tasks[t].analysis].feedback_id = tasks[t].feedback_id

(* C2.  analysis_complete is emitted at most once for a record, and        *)
(* exactly once when all its runs are over and it owns an analysis;        *)
(* likewise urgent_alert, for a critical analysis.                         *)
C2_EventsExactlyOnce ==
    \A id \in Ids :
        /\ Count("analysis_complete", id) <= 1
        /\ Count("urgent_alert", id) <= 1
        /\ ( /\ HasAnalysis(id)
             /\ \A t \in DOMAIN tasks :
                   tasks[t].feedback_id = id => tasks[t].pc = "done" )
           => /\ Count("analysis_complete", id) = 1
              /\ analysis[AnalysisOf(id)].urgency = "critical"
                    => Count("urgent_alert", id) = 1

(* C3.  When every classifier call of a run fails with a Transient         *)
(* outcome, the loop makes exactly 3 calls and returns the result of the   *)
(* last one, an error.                                                     *)
C3_TransientExhaustsThreeAttempts ==
    (LoopRan /\ AlwaysTransient)
    => /\ loop.run.calls = 3
       /\ loop.run.passes = 3
       /\ loop.run.result.error \in {"connection", "generic"}
       /\ loop.run.result = AnalyzeFeedback(TRUE, loop.outcomes[3])

C3_Witness ==
    LoopRan /\ AlwaysTransient /\ loop.run.calls = 3

C5_FailedRunCreatesNothing ==
    \A t \in DOMAIN tasks :
        /\ tasks[t].result.error \in {"unset", "none"}
        /\ tasks[t].failed => RowsOf(t) = {} /\ PublishedBy(t) = {}

C5_Witness ==
    \E t \in DOMAIN tasks :
        /\ tasks[t].pc = "done"
        /\ tasks[t].failed
        /\ RowsOf(t) = {}
        /\ ~HasAnalysis(tasks[t].feedback_id)

(* C6.  A RateLimited outcome before the last attempt is followed by a     *)
(* wait of the retry-after duration and by another attempt.                *)
C6_RateLimitedIsRetried ==
    LoopRan =>
        \A i \in 1..(MAX_RETRIES - 1) :
            (i <= loop.run.calls /\ RateLimited(loop.outcomes[i]))
            => /\ loop.run.calls > i
               /\ Len(loop.run.waits) >= i
               /\ loop.run.waits[i] = RETRY_AFTER

(* C7.  A Permanent outcome ends the loop: no classifier call follows it.  *)
C7_PermanentStopsTheLoop ==
    LoopRan =>
        \A i \in 1..MAX_RETRIES :
            (i <= loop.run.calls /\ Permanent(loop.outcomes[i]))
            => loop.run.calls = i

(* C8.  Without a configured model the loop returns the not-configured     *)
(* error after one pass, having called no classifier and slept not at all. *)
C8_NotConfiguredFailsAtOnce ==
    (~configured /\ loop.run # NotRun)
    => /\ loop.run.result.error = "not_configured"
       /\ loop.run.passes = 1
       /\ loop.run.calls = 0
       /\ loop.run.waits = << >>

C8_Witness ==
    ~configured /\ loop.run.passes = 1

(* C9.  After the first Transient failure the loop waits 1 second, after a *)
(* second one 2 seconds, and it never waits a third time.                  *)
C9_BackoffOneThenTwo ==
    LoopRan =>
        /\ Len(loop.run.waits) <= 2
        /\ \A k \in 1..2 :
              (\A i \in 1..k : Transient(loop.outcomes[i]))
              => /\ Len(loop.run.waits) >= k
                 /\ loop.run.waits[k] = <<1, 2>>[k]

C9_Witness ==
    LoopRan /\ AlwaysTransient /\ loop.run.waits = <<1, 2>>

(* C10.  A record owns an Analysis row exactly when its status is          *)
(* reviewed, in_progress or resolved.                                      *)
C10_StatusMatchesAnalysis ==
    \A id \in Ids :
        HasAnalysis(id) <=> feedback[id].status \in StaffStatuses

\* a step of the model added an Analysis row for record id
RowAdded(id) ==
    /\ ~HasAnalysis(id)
    /\ \E i \in 1..Len(analysis') : analysis'[i].feedback_id = id

\* a step of the model appended an event of run t
Published(t) ==
    /\ Len(events') = Len(events) + 1
    /\ events'[Len(events')].run = t

\* how many events of a kind run t has emitted
CountBy(kind, t) ==
    Cardinality({ i \in 1..Len(events) :
                    events[i].kind = kind /\ events[i].run = t })

C12_EmitAfterCommit ==
    [][ \A t \in DOMAIN tasks :
          (Published(t) /\ t > 0)
          => /\ HasAnalysis(tasks[t].feedback_id)
             /\ analysis' = analysis
             /\ feedback' = feedback
             /\ tasks[t].pc = "emit_complete"
                   => tasks[t].analysis = AnalysisOf(tasks[t].feedback_id)
      ]_vars

\* a run has stored its row and emitted analysis_complete for it
C12_Witness ==
    \E t \in DOMAIN tasks :
        /\ RowsOf(t) # {}
        /\ CountBy("analysis_complete", t) = 1

(* C13.  A run that ended after a successful enrichment, no emit having    *)
(* raised, has emitted analysis_complete once, and urgent_alert once when  *)
(* the stored urgency is critical and not at all otherwise; no run ever    *)
(* emits urgent_alert for an analysis that is not critical.                *)
C13_UrgentAlertIffCritical ==
    \A t \in DOMAIN tasks :
        LET id == tasks[t].feedback_id IN
        /\ (tasks[t].pc = "done" /\ ~tasks[t].failed /\ tasks[t].raised = "none")
           => /\ HasAnalysis(id)
              /\ CountBy("analysis_complete", t) = 1
              /\ CountBy("urgent_alert", t) =
                    IF analysis[AnalysisOf(id)].urgency = "critical"
                    THEN 1 ELSE 0
        /\ CountBy("urgent_alert", t) > 0
           => /\ HasAnalysis(id)
              /\ analysis[AnalysisOf(id)].urgency = "critical"

\* one run ended with the alert for a critical analysis
C13_Witness ==
    \E t \in DOMAIN tasks :
        /\ tasks[t].pc = "done"
        /\ RowsOf(t) # {}
        /\ CountBy("urgent_alert", t) = 1
        /\ CountBy("analysis_complete", t) = 1

(* C14.  Once an emit of a run has raised, the run changes nothing of what *)
(* is committed: the status of its record and the analysis table stay as   *)
(* they are.                                                               *)
C14_PublishFailureKeepsState ==
    [][ \A t \in DOMAIN tasks :
          (tasks[t].raised = "publish" /\ tasks'[t] # tasks[t])
          => /\ feedback' = feedback
             /\ analysis' = analysis
      ]_vars

(* C15.  The analysis table never holds two rows for one feedback id, and  *)
(* a run whose insert the table rejected has no row in it.                 *)
C15_OneAnalysisPerRecord ==
    /\ \A i, j \in 1..Len(analysis) :
          analysis[i].feedback_id = analysis[j].feedback_id => i = j
    /\ \A t \in DOMAIN tasks :
          tasks[t].raised = "IntegrityError" => RowsOf(t) = {}

\* two runs of one record raced: one stored the row, the other's insert
\* was rejected
C15_Witness ==
    \E t, u \in DOMAIN tasks :
        /\ tasks[t].raised = "IntegrityError"
        /\ tasks[u].feedback_id = tasks[t].feedback_id
        /\ RowsOf(u) # {}
        /\ Cardinality(AnalysisRows(tasks[t].feedback_id)) = 1

\* record id exists and is in pending_analysis
Pending(id) ==
    IF id \in Ids THEN feedback[id].status = "pending_analysis" ELSE FALSE

(* C16.  Every record that is in pending_analysis leaves it in the end.    *)
C16_PendingIsLeft ==
    \A id \in 1..MaxRecords :
        Pending(id) ~> ~Pending(id)

(* C17.  A retry-analysis request leaves its record in pending_analysis    *)
(* when it found it in analysis_failed and in the status it found it in    *)
(* otherwise, and the status is committed in the step that adds the        *)
(* record's new task, which has not begun.                                 *)
C17_RetryResetsFailed ==
    [][ (Len(tasks') = Len(tasks) + 1 /\ Len(feedback') = Len(feedback))
        => LET new == tasks'[Len(tasks')]
               id == new.feedback_id
           IN /\ new = NewTask(id)
              /\ feedback'[id].status =
                    IF feedback[id].status = "analysis_failed"
                    THEN "pending_analysis"
                    ELSE feedback[id].status
              /\ \A other \in Ids \ {id} : feedback'[other] = feedback[other]
      ]_vars

\* a record whose first run failed is pending again, its new run not begun
C17_Witness ==
    \E t, u \in DOMAIN tasks :
        /\ t < u
        /\ tasks[t].feedback_id = tasks[u].feedback_id
        /\ tasks[t].pc = "done"
        /\ tasks[t].failed
        /\ tasks[u].pc = "queued"
        /\ feedback[tasks[u].feedback_id].status = "pending_analysis"

(* C18.  The preview built for a notification is the text itself when the  *)
(* text is no longer than the limit, and otherwise the first N characters  *)
(* of the text followed by three dots, N being 100 for new_feedback and    *)
(* 200 for urgent_alert.                                                   *)
C18_PreviewTruncates ==
    fn.built =>
        LET N == IF fn.event = "new_feedback" THEN 100 ELSE 200
        IN IF Len(fn.text) <= N
           THEN fn.preview = fn.text
           ELSE /\ Len(fn.preview) = N + 3
                /\ \A i \in 1..N : fn.preview[i] = fn.text[i]
                /\ \A i \in (N + 1)..(N + 3) : fn.preview[i] = "."

\* a text of 250 characters became its first 200 and three dots
C18_Witness ==
    /\ fn.built
    /\ fn.event = "urgent_alert"
    /\ Len(fn.text) = 250
    /\ Len(fn.preview) = 203

(* C19.  Parsing a payload inside a markdown code fence, with the json     *)
(* label or without it, gives what parsing the payload itself gives.       *)
C19_FenceMakesNoDifference ==
    fn.parsed => fn.fenced = fn.bare

\* an object was read out of an unlabelled fence
C19_Witness ==
    /\ fn.parsed
    /\ ~fn.labelled
    /\ fn.bare.ok
    /\ fn.fenced.ok
    /\ fn.bare.value # << >>

\* the key is absent from the object the classifier sent
Missing(key) == key \notin DOMAIN fn.analysis_data

\* the key is absent from the dict sent for a field, or the field is absent
MissingIn(field, key) ==
    Missing(field) \/ key \notin DOMAIN fn.analysis_data[field]

(* C20.  Whatever fields a JSON object lacks, all of them included, it is  *)
(* made into a result without error, in which a missing sentiment is       *)
(* neutral, a missing confidence 0.5, a missing urgency level low, missing *)
(* emotions, key points, subcategories and flags are empty lists, and the  *)
(* medical concerns hold their four lists, empty where nothing was sent.   *)
C20_MissingFieldsDefault ==
    fn.structured =>
        /\ fn.result.error = "none"
        /\ Missing("sentiment") => fn.result.sentiment = "neutral"
        /\ Missing("confidence_score") => fn.result.confidence_score = "0.5"
        /\ MissingIn("urgency", "level") => fn.result.urgency = "low"
        /\ Missing("emotions") => fn.result.emotions = << >>
        /\ Missing("key_points") => fn.result.key_points = << >>
        /\ MissingIn("categories", "subcategories")
              => fn.result.subcategories = << >>
        /\ MissingIn("urgency", "flags") => fn.result.urgency_flags = << >>
        /\ DOMAIN fn.result.medical_concerns = MedicalKeys
        /\ \A c \in MedicalKeys :
              MissingIn("medical_concerns", c)
              => fn.result.medical_concerns[c] = << >>

(* C21.  A response that json.loads rejects once the fences are stripped   *)
(* ends the loop: it is the last classifier call of the run, no wait       *)
(* follows it, and the loop returns the parse error, with which the run    *)
(* goes on to mark its record failed.                                      *)
C21_ParseErrorNotRetried ==
    LoopRan =>
        \A i \in 1..MAX_RETRIES :
            (i <= loop.run.calls /\ loop.outcomes[i].kind = "garbage")
            => /\ loop.run.calls = i
               /\ Len(loop.run.waits) = i - 1
               /\ loop.run.result.error = "parse"
               /\ AfterRetry(loop.run.result) = "mark_failed"

\* a retried failure, then a response that is no JSON: two calls and no more
C21_Witness ==
    /\ LoopRan
    /\ Transient(loop.outcomes[1])
    /\ loop.outcomes[2].kind = "garbage"
    /\ loop.run.calls = 2
    /\ loop.run.result.error = "parse"

(* C26.  Every call of analyze_feedback returns a dict: none ends with an  *)
(* exception leaving the function.  Whatever is not a JSON object that can *)
(* be structured (an exception of the call, text that is no JSON, JSON     *)
(* that is no object, a confidence that is no number), and every call      *)
(* without a configured model, gives a dict with an error; and the error   *)
(* for a timeout or a connection failure carries "retry": True.            *)
C26_ClientNeverRaises ==
    loop.run # NotRun =>
        /\ Len(loop.run.results) = loop.run.passes
        /\ \A i \in 1..Len(loop.run.results) :
              LET o == loop.outcomes[i]
                  r == loop.run.results[i]
              IN /\ r.error # "raised"
                 /\ (~configured \/ o.kind # "json")
                       => r.error \notin {"none", "unset"}
                 /\ ( /\ configured
                      /\ o.kind = "exc"
                      /\ o.phrases \cap {"timeout", "connection"} # {} )
                    => r.retry

\* a confidence that is no number and then a timeout, both answered with an
\* error that asks for a retry
C26_Witness ==
    /\ LoopRan
    /\ loop.outcomes[1].kind = "bad_confidence"
    /\ "timeout" \in loop.outcomes[2].phrases
    /\ loop.outcomes[3].kind = "list"
    /\ Len(loop.run.results) = 3
    /\ \A i \in 1..3 : loop.run.results[i].retry

(* C22.  The step that stores the analysis of a record changes the status  *)
(* of the record only when the record is in pending_analysis: a status     *)
(* that a staff update wrote while the classifier call was in flight       *)
(* stays as it is.                                                         *)
C22_EnrichmentKeepsStaffStatus ==
    [][ \A id \in Ids :
          (RowAdded(id) /\ feedback[id].status # "pending_analysis")
          => feedback'[id].status = feedback[id].status
      ]_vars

\* the transitions of the lifecycle (section 4.4 of the design)
LegalTransitions ==
    { <<"pending_analysis", "reviewed">>,
      <<"pending_analysis", "analysis_failed">>,
      <<"analysis_failed", "pending_analysis">>,
      <<"reviewed", "in_progress">>,
      <<"in_progress", "resolved">> }

(* C23.  Every change of a record's status is a transition of the          *)
(* lifecycle, and no step that adds an Action row (a staff update) is      *)
(* taken on a record that is in pending_analysis or analysis_failed.       *)
C23_OnlyLegalTransitions ==
    [][ \A id \in Ids :
          /\ feedback'[id].status # feedback[id].status
             => <<feedback[id].status, feedback'[id].status>>
                   \in LegalTransitions
          /\ ( /\ Len(actions') = Len(actions) + 1
               /\ actions'[Len(actions')].feedback_id = id )
             => feedback[id].status
                   \notin {"pending_analysis", "analysis_failed"}
      ]_vars

(* C24.  The actions table only grows, by one row a step, and its earlier  *)
(* rows stay as they are.  A step that adds a row is an update of a record *)
(* that exists, and the row carries the status the record has after the    *)
(* step; a step that moves a record to in_progress or resolved adds its    *)
(* row; no row is ever added for an id that no record has.                 *)
C24_ActionLogAppendOnly ==
    [][ /\ Len(actions') \in {Len(actions), Len(actions) + 1}
        /\ SubSeq(actions', 1, Len(actions)) = actions
        /\ Len(actions') = Len(actions) + 1
           => LET entry == actions'[Len(actions')]
              IN /\ entry.feedback_id \in Ids
                 /\ entry.status \in StaffStatuses
                 /\ feedback'[entry.feedback_id].status = entry.status
                 /\ \A other \in Ids \ {entry.feedback_id} :
                       feedback'[other] = feedback[other]
        /\ \A id \in Ids :
              ( /\ feedback'[id].status # feedback[id].status
                /\ feedback'[id].status \in {"in_progress", "resolved"} )
              => /\ Len(actions') = Len(actions) + 1
                 /\ actions'[Len(actions')] =
                       [feedback_id |-> id, status |-> feedback'[id].status]
      ]_vars

\* two updates of one record: both rows are kept, the record has the status
\* of the later one
C24_Witness ==
    /\ Len(actions) = 2
    /\ actions[1].feedback_id = actions[2].feedback_id
    /\ actions[1].status = "in_progress"
    /\ actions[2].status = "resolved"
    /\ feedback[actions[2].feedback_id].status = "resolved"

\* the Action rows of a record, in order
ActionsOf(id) == SelectSeq(actions, LAMBDA a : a.feedback_id = id)

\* the Analysis rows of a record
RowSetOf(id) == { analysis[i] : i \in AnalysisRows(id) }

(* C25.  A step of the background task of one record leaves the status,    *)
(* the Analysis rows and the Action rows of every other record as they     *)
(* are; and what a run ends with is decided by the result of its own       *)
(* classifier calls: with an error it has stored no row, without one it    *)
(* has stored the row of its record, and no insert of it is rejected,      *)
(* whatever the runs of the other records do.                              *)
C25_RecordsAreIndependent ==
    [][ \A t \in DOMAIN tasks :
          /\ tasks'[t] # tasks[t]
             => \A other \in Ids \ {tasks[t].feedback_id} :
                   /\ feedback'[other] = feedback[other]
                   /\ RowSetOf(other)' = RowSetOf(other)
                   /\ ActionsOf(other)' = ActionsOf(other)
          /\ tasks'[t].raised = "none"
          /\ tasks'[t].pc = "done"
             => IF tasks'[t].failed
                THEN RowsOf(t)' = {}
                ELSE /\ RowsOf(t)' # {}
                     /\ RowsOf(t)' = AnalysisRows(tasks[t].feedback_id)'
      ]_vars

\* the run of one record failed and the run of another stored its analysis
C25_Witness ==
    \E t, u \in DOMAIN tasks :
        /\ tasks[t].feedback_id # tasks[u].feedback_id
        /\ tasks[t].pc = "done"
        /\ tasks[t].failed
        /\ feedback[tasks[t].feedback_id].status = "analysis_failed"
        /\ tasks[u].pc = "done"
        /\ RowsOf(u) # {}
        /\ feedback[tasks[u].feedback_id].status = "reviewed"

(* C27.  A run whose insert the table rejected changes nothing from then   *)
(* on: whatever step it takes leaves the status of its record, the         *)
(* analysis table and the events as they are.                              *)
C27_RaceLoserChangesNothing ==
    [][ \A t \in DOMAIN tasks :
          (tasks[t].raised = "IntegrityError" /\ tasks'[t] # tasks[t])
          => /\ feedback'[tasks[t].feedback_id] = feedback[tasks[t].feedback_id]
             /\ analysis' = analysis
             /\ events' = events
      ]_vars

(* C28.  Every record in the urgent listing owns an Analysis row whose     *)
(* urgency is critical.                                                    *)
C28_UrgentListingOnlyCritical ==
    \A id \in GetUrgentFeedback :
        /\ HasAnalysis(id)
        /\ analysis[AnalysisOf(id)].urgency = "critical"

(* C29.  Every urgent_alert among the events comes after an                *)
(* analysis_complete that the same run emitted for the same record.        *)
C29_CompleteBeforeAlert ==
    \A i \in 1..Len(events) :
        events[i].kind = "urgent_alert"
        => \E j \in 1..(i - 1) :
              /\ events[j].kind = "analysis_complete"
              /\ events[j].run = events[i].run
              /\ events[j].feedback_id = events[i].feedback_id

\* the run that stored a critical analysis emitted both, in order
C29_Witness ==
    \E i, j \in 1..Len(events) :
        /\ j < i
        /\ events[j].kind = "analysis_complete"
        /\ events[i].kind = "urgent_alert"
        /\ events[i].run = events[j].run
        /\ RowsOf(events[i].run) # {}

\* the task was called with an id that no record has
Unknown(t) == tasks[t].feedback_id \notin Ids

===========================================================================
